---- MODULE Spec2Model ----
(***************************************************************************)
(* Model of the EO_river_ice acquisition scripts:                          *)
(*   scripts/RCM/get_rcm.py            (RCM pipeline, execute_download)    *)
(*   scripts/sentinel/get_sentinel.py  (Sentinel entry point, FewsConfig)  *)
(*   scripts/sentinel/SentinelClient.py (search, token exchange, fetch)    *)
(* One behaviour is one run of one of the two scripts.  The calls into the *)
(* eodms_rapi and requests libraries are the environment: every outcome    *)
(* the library can produce (a result or a raised exception) is a choice.   *)
(* The log level of the run is taken to be DEBUG, so every logging call    *)
(* appends a line to log.txt.                                              *)
(***************************************************************************)
EXTENDS Integers, Sequences, FiniteSets, TLC

----------------------------------------------------------------------------
(* Bounds of the model *)

\* largest number of products a catalogue search returns
MaxProducts == 2

\* largest configured polling timeout (attempts of rapi.download)
MaxTimeout == 2

\* largest number of redirects of one product that the run's history counts
\* and records (the backend may go on redirecting beyond it)
MaxHops == 2

----------------------------------------------------------------------------
(* Run configuration: the properties block of the run-info file *)

RcmKeys ==
    {"destinationDir", "user", "secret", "mission", "unzip",
     "download_type", "timeout", "resolution", "polarization"}

SenKeys ==
    {"mission", "user", "secret", "download_type", "product_type",
     "product_mode", "destinationDir"}

\* the table `check` of error_check
check ==
    [mission |-> {"RCMImageProducts"},
     download_type |-> {"acquisition", "ingestion"},
     unzip |-> {"True", "False"},
     resolution |-> {"Any", "100M", "50M", "30M", "16M", "5M", "3M", "FSL", "H", "LNS"},
     polarization |-> {"Any", "CH CV", "HH", "HH HV", "HH HV VH VV", "HH VV",
                       "HV", "VH", "VH VV", "VV"}]

\* int(float(text)) on the decimal texts the model configures
IntFloat(text) == CHOOSE n \in 0..(MaxTimeout + 1) : ToString(n) = text

Drop(p, k) == [x \in (DOMAIN p) \ {k} |-> p[x]]

Spoil(p, k) == [p EXCEPT ![k] = "bogus"]

RcmBase ==
    { [destinationDir |-> "dest", user |-> "usr", secret |-> "pwd",
       mission |-> "RCMImageProducts", unzip |-> u, download_type |-> "acquisition",
       timeout |-> ToString(t), resolution |-> "100M", polarization |-> "HH"] :
         u \in {"True", "False"}, t \in 1..MaxTimeout }

SenBase ==
    { [mission |-> m, user |-> "usr", secret |-> "pwd", download_type |-> d,
       product_type |-> "GRD", product_mode |-> "IW", destinationDir |-> "dest"] :
         m \in {"SENTINEL-1", "SENTINEL-2"}, d \in {"acquisition", "ingestion"} }

\* a configuration with one required key absent, or one enumerated value wrong
RcmDefect ==
    { Drop(b, k) : b \in RcmBase, k \in RcmKeys }
      \cup { Spoil(b, k) : b \in RcmBase, k \in DOMAIN check }

SenDefect ==
    { Drop(b, k) : b \in SenBase, k \in SenKeys }
      \cup { Spoil(b, k) : b \in SenBase, k \in {"mission", "download_type"} }

----------------------------------------------------------------------------
(* Area of interest: the *.geojson files of the working directory.         *)
(* A coordinate structure is a tree: a leaf is one position (a list of     *)
(* numbers, field p), an inner node is a list of coordinate structures     *)
(* (field v).                                                              *)

Pt(p) == [leaf |-> TRUE, p |-> p, v |-> <<>>]

Ring(vs) == [leaf |-> FALSE, p |-> <<>>, v |-> vs]

GeomOk == Ring(<<Pt(<<0, 0>>), Pt(<<0, 1>>), Pt(<<1, 1>>), Pt(<<0, 0>>)>>)

Geom3d == Ring(<<Pt(<<0, 0, 500>>), Pt(<<0, 1, 500>>), Pt(<<1, 1, 500>>), Pt(<<0, 0, 500>>)>>)

GeomBadLon == Ring(<<Pt(<<0, 0>>), Pt(<<181, 1>>), Pt(<<1, 1>>), Pt(<<0, 0>>)>>)

GeomBadLat == Ring(<<Pt(<<0, 0>>), Pt(<<0, -91>>), Pt(<<1, 1>>), Pt(<<0, 0>>)>>)

\* a geojson file: a bare geometry, a feature, or a feature collection
File(kind, geoms) == [kind |-> kind, geoms |-> geoms]

FileOk == File("FeatureCollection", <<GeomOk>>)

DirOk == <<FileOk>>

DirDefect ==
    { <<>>, <<FileOk, File("FeatureCollection", <<GeomBadLon>>)>>,
      <<File("FeatureCollection", <<>>)>>,
      <<File("FeatureCollection", <<GeomOk, Geom3d>>)>>,
      <<File("Geometry", <<GeomOk>>)>>,
      <<File("Feature", <<GeomOk>>)>>,
      <<File("FeatureCollection", <<Geom3d>>)>>,
      <<File("FeatureCollection", <<GeomBadLon>>)>>,
      <<File("FeatureCollection", <<GeomBadLat>>)>> }

\* the members of an archive (zf.namelist())
Members == {1, 2}

\* what can be wrong with the archives the run meets: one member that fails
\* to extract, or (member 0) one archive that cannot be opened
ZipDefect ==
    { {<<a, m>>} : a \in 0..MaxProducts, m \in {0} \cup Members }

\* the inputs of a run: the baseline, or the baseline with one deviation
RcmInputs ==
    { <<p, DirOk, {}>> : p \in RcmBase \cup RcmDefect }
      \cup { <<p, d, {}>> : p \in RcmBase, d \in DirDefect }
      \cup { <<p, DirOk, z>> : p \in RcmBase, z \in ZipDefect }

SenInputs ==
    { <<p, DirOk, {}>> : p \in SenBase \cup SenDefect }
      \cup { <<p, d, {}>> : p \in SenBase, d \in DirDefect }

----------------------------------------------------------------------------
(* geojson_to_wkt *)

\* the geometry selected from a geojson object; <<>> when the lookup raises
SelectGeometry(obj, feature_number) ==
    IF obj.kind \in {"Geometry", "Feature"} THEN <<obj.geoms[1]>>
    ELSE IF feature_number + 1 \in DOMAIN obj.geoms
         THEN <<obj.geoms[feature_number + 1]>>
         ELSE <<>>

\* a projection that keeps every component
keep_all(geometry) == geometry

RECURSIVE ensure_2d(_)
ensure_2d(geometry) ==
    IF geometry.leaf
    THEN Pt(SubSeq(geometry.p, 1, IF Len(geometry.p) < 2 THEN Len(geometry.p) ELSE 2))
    ELSE Ring([i \in DOMAIN geometry.v |-> ensure_2d(geometry.v[i])])

\* TRUE when check_bounds returns, FALSE when it raises ValueError
RECURSIVE check_bounds(_)
check_bounds(geometry) ==
    IF geometry.leaf
    THEN /\ ~(geometry.p[1] > 180 \/ geometry.p[1] < -180)
         /\ ~(geometry.p[2] > 90 \/ geometry.p[2] < -90)
    ELSE \A i \in DOMAIN geometry.v : check_bounds(geometry.v[i])

\* no geojson object
NoObj == File("", <<>>)

\* the default of the parameter `decimals`
Decimals == 4

\* The text of a WKT string is a sequence of tokens: a symbol, or a number
\* printed with `dec` decimals (its last character is a digit).
Sym(s) == [sym |-> s, num |-> 0, dec |-> 0]

Num(n, dec) == [sym |-> "#", num |-> n, dec |-> dec]

RECURSIVE Joined(_, _)
Joined(parts, sep) ==
    IF parts = <<>> THEN <<>>
    ELSE IF Len(parts) = 1 THEN parts[1]
    ELSE parts[1] \o sep \o Joined(Tail(parts), sep)

\* nesting depth of a coordinate structure
RECURSIVE Depth(_)
Depth(g) == IF g.leaf THEN 0 ELSE IF g.v = <<>> THEN 1 ELSE 1 + Depth(g.v[1])

\* the geometry type that goes with each depth of coordinates
TypeName == <<"POINT", "LINESTRING", "POLYGON", "MULTIPOLYGON">>

RECURSIVE CoordText(_, _)
CoordText(g, decimals) ==
    IF g.leaf
    THEN Joined([i \in DOMAIN g.p |-> <<Num(g.p[i], decimals)>>], <<Sym(" ")>>)
    ELSE Joined([i \in DOMAIN g.v |->
                    IF g.v[i].leaf THEN CoordText(g.v[i], decimals)
                    ELSE <<Sym("(")>> \o CoordText(g.v[i], decimals) \o <<Sym(")")>>],
                <<Sym(","), Sym(" ")>>)

\* wkt.dumps(geometry, decimals=decimals): "POLYGON ((x y, x y, ...))"
dumps(coordinates, decimals) ==
    <<Sym(TypeName[Depth(coordinates) + 1]), Sym(" "), Sym("(")>>
        \o CoordText(coordinates, decimals) \o <<Sym(")")>>

\* re.sub(r'(?<!\d) ', '', wkt): drops each space that does not follow a digit
RECURSIVE re_sub(_, _)
re_sub(wkt, i) ==
    IF i > Len(wkt) THEN <<>>
    ELSE (IF wkt[i].sym = " " /\ (i = 1 \/ wkt[i - 1].sym # "#") THEN <<>> ELSE <<wkt[i]>>)
            \o re_sub(wkt, i + 1)

\* geojson_to_wkt(geojson_obj, feature_number, decimals): the exception it
\* raises ("" when it returns), the caller's object as the call leaves it,
\* and the string returned
geojson_to_wkt(geojson_obj, feature_number, decimals) ==
    LET sel == SelectGeometry(geojson_obj, feature_number)
        at == IF geojson_obj.kind = "FeatureCollection" THEN feature_number + 1 ELSE 1
    IN  IF sel = <<>>
        THEN [raised |-> "IndexError", obj |-> geojson_obj, wkt |-> <<>>]
        ELSE LET flat == ensure_2d(sel[1])
                 assigned == [geojson_obj EXCEPT !.geoms[at] = flat]
             IN  IF ~check_bounds(flat)
                 THEN [raised |-> "ValueError", obj |-> assigned, wkt |-> <<>>]
                 ELSE [raised |-> "", obj |-> assigned, wkt |-> re_sub(dumps(flat, decimals), 1)]

----------------------------------------------------------------------------
(* Logging and the diagnostic document *)

Line(level, msg) == [level |-> level, msg |-> msg]

\* a table with two codes exchanged
transExchanged == [WARNING |-> "1", ERROR |-> "2", INFO |-> "3", DEBUG |-> "4"]

trans == [WARNING |-> "2", ERROR |-> "1", INFO |-> "3", DEBUG |-> "4"]

\* A text is a sequence of atoms: an atom is one character, or a word (a run
\* of characters none of which is a space, a hyphen, a comma, a quote, a dash
\* or a line end).

\* the character U+2013
EnDash == "en-dash"

Quote == "\""

\* the separator of the logging format
Sep == <<" ", "-", " ">>

\* %(asctime)s of a log record: "2024-05-01 10:00:00,123"
Stamp == <<"2024-05-01", " ", "1", "0", ":", "0", "0", ":", "0", "0", ",", "1", "2", "3">>

\* line 85: '%(asctime)s - %(name)s - %(levelname)s - %(message)s', one line
\* of log.txt (logging.debug and the like log through the root logger)
FormatLine(asctime, levelname, message) ==
    asctime \o Sep \o <<"root">> \o Sep \o <<levelname>> \o Sep \o message \o <<"\n">>

\* log.txt for the records logged so far
LogFile(records) ==
    [i \in DOMAIN records |-> FormatLine(Stamp, records[i].level, <<records[i].msg>>)]

\* str.strip()
strip(s) ==
    LET ink == {i \in DOMAIN s : s[i] \notin {" ", "\n"}}
    IN  IF ink = {} THEN <<>>
        ELSE SubSeq(s, CHOOSE i \in ink : \A j \in ink : i <= j,
                       CHOOSE i \in ink : \A j \in ink : j <= i)

\* str.split(sep)
RECURSIVE split(_, _)
split(s, sep) ==
    LET n == Len(sep)
        hits == {i \in 1..(Len(s) - n + 1) : SubSeq(s, i, i + n - 1) = sep}
    IN  IF hits = {} THEN <<s>>
        ELSE LET i == CHOOSE h \in hits : \A j \in hits : h <= j
             IN  <<SubSeq(s, 1, i - 1)>> \o split(SubSeq(s, i + n, Len(s)), sep)

\* str.replace(old, '')
remove(s, old) == LET keep(c) == c # old IN SelectSeq(s, keep)

\* str.replace(old, new), one character for another
replace(s, old, new) == [i \in DOMAIN s |-> IF s[i] = old THEN new ELSE s[i]]

\* lines 217-224: the element written for one line of the log, none when
\* an exception is raised on the way (the except clause drops the line)
line2xml(aline) ==
    LET parts == split(strip(aline), Sep)
        lineparts == [i \in DOMAIN parts |-> remove(remove(parts[i], EnDash), Quote)]
        datetime == split(replace(lineparts[1], ",", ":"), <<" ">>)
    IN  IF Len(datetime) < 2 \/ Len(lineparts) < 4
        THEN <<>>
        ELSE IF ~(Len(lineparts[3]) = 1 /\ lineparts[3][1] \in DOMAIN trans)
        THEN <<>>
        ELSE << [date |-> datetime[1],
                 time |-> SubSeq(datetime[2], 1, IF Len(datetime[2]) < 8 THEN Len(datetime[2]) ELSE 8),
                 level |-> trans[lineparts[3][1]],
                 description |-> lineparts[4]] >>

RECURSIVE elements(_)
elements(lines) ==
    IF lines = <<>> THEN <<>> ELSE line2xml(Head(lines)) \o elements(Tail(lines))

\* lines 211-214: the opening of the document
DiagHeader == "<?xml version=\"1.0\" encoding=\"UTF-8\"?><Diag version=\"1.2\">"

\* line 225
DiagFooter == "</Diag>"

\* no diag.xml
NoDoc == [header |-> "", lines |-> <<>>, footer |-> ""]

\* log2xml: the document written for the lines of the log file
log2xml(lines) == [header |-> DiagHeader, lines |-> elements(lines), footer |-> DiagFooter]

----------------------------------------------------------------------------
(* Exceptions and operations *)

NoExc == [type |-> "", msg |-> "", cause |-> ""]

Exc(type, msg, cause) == [type |-> type, msg |-> msg, cause |-> cause]

Call(op, arg, auth) == [op |-> op, arg |-> arg, auth |-> auth]

NetworkOps == {"search", "order", "poll", "download", "token", "fetch"}

\* the archive a previous run may have left in the destination directory
OldZips == {0}

\* ascending order of a set of archive ids, as sorted(glob.glob(...))
RECURSIVE Sorted(_)
Sorted(S) ==
    IF S = {} THEN <<>>
    ELSE LET m == CHOOSE x \in S : \A y \in S : x <= y
         IN  <<m>> \o Sorted(S \ {m})

VARIABLES
    pipeline,     \* "RCM" or "Sentinel": the script that runs
    pc,           \* position of the run in the script
    props,        \* the properties block: key -> value
    workFiles,    \* the *.geojson files of the working directory, in listing order
    log,          \* the lines of log.txt
    diagWrites,   \* number of times diag.xml was written
    diagDoc,      \* diag.xml as last written, NoDoc when never written
    all_lines,    \* the lines of log.txt as log2xml last read them
    calls,        \* operations performed so far, in order
    exitStatus,   \* "running", "returned", "exit0", "exit1" or "uncaught"
    exc,          \* the exception that ended the run, or NoExc
    res,          \* products returned by the search (ids 1..n)
    attempts,     \* polling attempts made by rapi.download
    max_attempts, \* polling budget
    download_res, \* products downloaded so far
    destZips,     \* the *.zip archives in the destination directory
    todo,         \* archives extract_all has still to process
    extracted,    \* archives extracted in this run
    unpacked,     \* <<archive, member>>: the members extracted in this run
    corrupt,      \* <<archive, member>>: members that fail to extract;
                  \* <<archive, 0>>: the archive cannot be opened
    geo_obj,      \* the geojson object read from the first file, NoObj when none
    wkts,         \* the strings geojson_to_wkt has returned, one per call
    decimals,     \* the precision geojson_to_wkt is called with
    cfgBuilt,     \* Sentinel: FewsConfig objects constructed
    idx,          \* Sentinel: position of the download loop in the product list
    token,        \* Sentinel: the keycloak token, "" when none
    hops,         \* Sentinel: redirects followed for the current product
    resp          \* Sentinel: status of the last response, 0 when none

vars ==
    <<pipeline, pc, props, workFiles, log, diagWrites, diagDoc, all_lines, calls,
      exitStatus, exc, res, attempts, max_attempts, download_res, destZips, todo,
      extracted, unpacked, corrupt, geo_obj, wkts, decimals,
      cfgBuilt, idx, token, hops, resp>>

rcmVars == <<res, attempts, max_attempts, download_res, todo, extracted, unpacked>>

senVars == <<cfgBuilt, idx, token, hops, resp>>

inputVars == <<pipeline, props, workFiles, corrupt>>

geoVars == <<geo_obj, wkts, decimals>>

Init ==
    /\ pipeline \in {"RCM", "Sentinel"}
    /\ \E inp \in (IF pipeline = "RCM" THEN RcmInputs ELSE SenInputs) :
          /\ props = inp[1]
          /\ workFiles = inp[2]
          /\ corrupt = inp[3]
    /\ pc = "start"
    /\ log = <<>>
    /\ diagWrites = 0
    /\ diagDoc = NoDoc
    /\ all_lines = <<>>
    /\ calls = <<>>
    /\ exitStatus = "running"
    /\ exc = NoExc
    /\ res = <<>>
    /\ attempts = 0
    /\ max_attempts = 0
    /\ download_res = {}
    /\ destZips \in SUBSET OldZips
    /\ todo = <<>>
    /\ extracted = {}
    /\ unpacked = {}
    /\ geo_obj = NoObj
    /\ wkts = <<>>
    /\ decimals = Decimals
    /\ cfgBuilt = 0
    /\ idx = 1
    /\ token = ""
    /\ hops = 0
    /\ resp = 0

----------------------------------------------------------------------------
(* Ways a step ends the run *)

\* an exception that is recorded while the run stays where it is
UncaughtGoesOn(e, lines) ==
    /\ exitStatus' = "uncaught"
    /\ exc' = e
    /\ pc' = pc
    /\ log' = log \o lines

\* an exception nobody catches: the interpreter prints it and exits
Uncaught(e, lines) ==
    /\ exitStatus' = "uncaught"
    /\ exc' = e
    /\ pc' = "halt"
    /\ log' = log \o lines

\* quit() / sys.exit(): a clean exit
Quit(lines) ==
    /\ exitStatus' = "exit0"
    /\ exc' = NoExc
    /\ pc' = "halt"
    /\ log' = log \o lines

\* log2xml(log.txt, diag.xml) run on the log as it will stand after `lines`
WriteDiag(lines) ==
    /\ diagWrites' = diagWrites + 1
    /\ all_lines' = LogFile(log \o lines)
    /\ diagDoc' = log2xml(LogFile(log \o lines))

KeyError(k) == Exc("KeyError", k, "")

\* first key of `keys` (in order) that props lacks, 0 when none
FirstMissing(keys) ==
    IF \E i \in DOMAIN keys : keys[i] \notin DOMAIN props
    THEN CHOOSE i \in DOMAIN keys :
            /\ keys[i] \notin DOMAIN props
            /\ \A j \in 1..(i - 1) : keys[j] \in DOMAIN props
    ELSE 0


\* line 174: the message for a property that is not configured
NotConfigured(k) ==
    "Property [ " \o k \o " ] is not configured. Add property [ " \o k \o " ] to the xml input file. "

\* line 188: the message for a value outside its list (the list is check[k])
WrongInput(k) ==
    "Wrong input to property [ " \o k \o " ], has to be one of: check[" \o k \o "]"

\* error_check(properties): the error lines it can halt on (the second loop
\* visits the keys in document order), {} when it returns the properties.
\* No statement of get_rcm.py calls error_check.
error_check(properties) ==
    LET order == <<"destinationDir", "user", "secret", "mission", "unzip",
                   "download_type", "timeout", "resolution", "polarization">>
        absent == {i \in DOMAIN order : order[i] \notin DOMAIN properties}
        wrong == {k \in (DOMAIN properties) \cap (DOMAIN check) : properties[k] \notin check[k]}
    IN  IF absent # {}
        THEN {Line("ERROR", NotConfigured(order[CHOOSE i \in absent : \A j \in absent : i <= j]))}
        ELSE {Line("ERROR", WrongInput(k)) : k \in wrong}

\* the step raises: the run ends with the exception, after `newCalls`
Crash(e, lines, newCalls) ==
    /\ Uncaught(e, lines)
    /\ calls' = calls \o newCalls
    /\ UNCHANGED <<inputVars, geoVars, diagWrites, diagDoc, all_lines, rcmVars, senVars, destZips>>

\* the same, when the failed request got the answer `status` (-1: no answer)
CrashOn(status, e, lines, newCalls) ==
    /\ Uncaught(e, lines)
    /\ calls' = calls \o newCalls
    /\ resp' = status
    /\ UNCHANGED <<inputVars, geoVars, diagWrites, diagDoc, all_lines, rcmVars, cfgBuilt, idx, token, hops,
                   destZips>>

----------------------------------------------------------------------------
(* RCM pipeline: execute_download *)

\* lines 90-105: the API object, the area of interest, the query filters
RcmSetup ==
    /\ pipeline = "RCM"
    /\ pc = "start"
    /\ LET lines == <<Line("DEBUG", "RCMSearch loaded")>>
           cred == FirstMissing(<<"user", "secret">>)
           filt == FirstMissing(<<"resolution", "polarization">>)
           conv == geojson_to_wkt(workFiles[1], 0, decimals)
       IN  IF cred # 0
           THEN Crash(KeyError(<<"user", "secret">>[cred]), lines, <<>>)
           ELSE IF workFiles = <<>>
           THEN Crash(Exc("IndexError", "list index out of range", ""), lines, <<>>)
           ELSE IF conv.raised # ""
           THEN /\ Uncaught(Exc(conv.raised, "", ""), lines)
                /\ geo_obj' = conv.obj
                /\ UNCHANGED <<inputVars, wkts, decimals, diagWrites, diagDoc, all_lines,
                               calls, rcmVars, senVars, destZips>>
           ELSE IF filt # 0
           THEN /\ Uncaught(KeyError(<<"resolution", "polarization">>[filt]), lines)
                /\ geo_obj' = conv.obj
                /\ wkts' = Append(wkts, conv.wkt)
                /\ UNCHANGED <<inputVars, decimals, diagWrites, diagDoc, all_lines,
                               calls, rcmVars, senVars, destZips>>
           ELSE /\ pc' = "search"
                /\ log' = log \o lines
                /\ geo_obj' = conv.obj
                /\ wkts' = Append(wkts, conv.wkt)
                /\ UNCHANGED <<inputVars, decimals, diagWrites, diagDoc, all_lines, calls,
                               exitStatus, exc, rcmVars, senVars, destZips>>

\* lines 108-117: the search, and the exit when it finds nothing
RcmSearch ==
    /\ pipeline = "RCM"
    /\ pc = "search"
    /\ IF "mission" \notin DOMAIN props
       THEN Crash(KeyError("mission"), <<>>, <<>>)
       ELSE \/ Crash(Exc("ConnectionError", "search", ""), <<>>, <<Call("search", 0, "")>>)
            \/ \E n \in 0..MaxProducts :
                 /\ res' = [i \in 1..n |-> i]
                 /\ calls' = Append(calls, Call("search", 0, ""))
                 /\ IF n = 0
                    THEN LET lines == <<Line("INFO", "No images found, exiting download script...")>>
                         IN  /\ WriteDiag(lines)
                             /\ Quit(lines)
                    ELSE /\ pc' = "order"
                         /\ UNCHANGED <<log, diagWrites, diagDoc, all_lines, exitStatus, exc>>
                 /\ UNCHANGED <<inputVars, geoVars, attempts, max_attempts, download_res, todo,
                                extracted, unpacked, senVars, destZips>>

\* lines 119-123: the order, the polling budget, the destination directory
RcmOrder ==
    /\ pipeline = "RCM"
    /\ pc = "order"
    /\ LET order == <<Call("order", Len(res), "")>>
       IN  \/ Crash(Exc("ConnectionError", "order", ""), <<>>, order)
           \/ IF "timeout" \notin DOMAIN props
              THEN Crash(KeyError("timeout"), <<>>, order)
              ELSE IF "destinationDir" \notin DOMAIN props
              THEN Crash(KeyError("destinationDir"), <<>>, order)
              ELSE /\ max_attempts' = IntFloat(props["timeout"])
                   /\ attempts' = 0
                   /\ calls' = calls \o order
                   /\ pc' = "poll"
                   /\ UNCHANGED <<inputVars, geoVars, log, diagWrites, diagDoc, all_lines, exitStatus, exc,
                                  res, download_res, todo, extracted, unpacked, senVars, destZips>>

Ordered == {res[i] : i \in DOMAIN res}

\* rapi.download has finished waiting: everything is in, or the budget is spent
PollOver == attempts >= max_attempts \/ download_res = Ordered

\* line 123, one polling attempt of rapi.download: the items that have become
\* available are downloaded into the destination directory
RcmPoll ==
    /\ pipeline = "RCM"
    /\ pc = "poll"
    /\ ~PollOver
    /\ \E ready \in SUBSET (Ordered \ download_res) :
         LET got == Sorted(ready)
         IN  /\ attempts' = attempts + 1
             /\ download_res' = download_res \cup ready
             /\ destZips' = destZips \cup ready
             /\ calls' = calls \o <<Call("poll", attempts + 1, "")>>
                               \o [i \in DOMAIN got |-> Call("download", got[i], "")]
    /\ UNCHANGED <<inputVars, geoVars, pc, log, diagWrites, diagDoc, all_lines, exitStatus, exc, res,
                   max_attempts, todo, extracted, unpacked, senVars>>

\* line 123, rapi.download raises while polling
RcmPollRaise ==
    /\ pipeline = "RCM"
    /\ pc = "poll"
    /\ ~PollOver
    /\ Crash(Exc("ConnectionError", "download", ""), <<>>, <<Call("poll", attempts + 1, "")>>)

\* the condition of line 125
TimedOut(got) == Cardinality(got) = 0

\* lines 125-128: rapi.download has returned
RcmAfterDownload ==
    /\ pipeline = "RCM"
    /\ pc = "poll"
    /\ PollOver
    /\ pc' = "unzip"
    /\ IF TimedOut(download_res)
       THEN LET lines == <<Line("WARNING", "Ordering RCM images took longer than timeout minutes. Continue...")>>
            IN  /\ log' = log \o lines
                /\ WriteDiag(lines)
       ELSE UNCHANGED <<log, diagWrites, diagDoc, all_lines>>
    /\ UNCHANGED <<inputVars, geoVars, calls, exitStatus, exc, rcmVars, senVars, destZips>>

\* a listing made from the order instead of the directory
ListingOfOrder == Sorted(destZips \cup Ordered)

\* line 142: files = sorted(glob.glob(os.path.join(out_dir, '*.zip')))
Listing == Sorted(destZips)

\* an unzip switch that also asks for a downloaded product
UnzipEnabledAfterDownload == props["unzip"] = "True" /\ download_res # {}

\* line 130: the test of the unzip switch
UnzipEnabled == props["unzip"] = "True"

\* lines 130-135 and 142: the unzip switch, and the listing extract_all starts from
RcmUnzip ==
    /\ pipeline = "RCM"
    /\ pc = "unzip"
    /\ IF "unzip" \notin DOMAIN props
       THEN Crash(KeyError("unzip"), <<>>, <<>>)
       ELSE /\ IF UnzipEnabled
               THEN /\ log' = Append(log, Line("DEBUG", "Extracting products : ..."))
                    /\ todo' = Listing
                    /\ pc' = "extract"
               ELSE /\ log' = Append(log, Line("DEBUG", "Attribute unzip set to false, not unzipping files."))
                    /\ todo' = todo
                    /\ pc' = "finish"
            /\ UNCHANGED <<inputVars, geoVars, diagWrites, diagDoc, all_lines, calls, exitStatus, exc, res,
                           attempts, max_attempts, download_res, extracted, unpacked, senVars, destZips>>

\* lines 147-151: the members of archive `item` that zf.extract writes; a
\* member that raises zipfile.error is passed over
ExtractMembers(item) == {<<item, m>> : m \in {n \in Members : <<item, n>> \notin corrupt}}

\* lines 143-154: extract_all unpacks the next archive of its listing;
\* zipfile.ZipFile(item) (line 146) is outside the try of line 148
RcmExtractItem ==
    /\ pipeline = "RCM"
    /\ pc = "extract"
    /\ todo # <<>>
    /\ IF <<Head(todo), 0>> \in corrupt
       THEN Crash(Exc("BadZipFile", "File is not a zip file", ""),
                  <<Line("DEBUG", "archive")>>, <<>>)
       ELSE /\ log' = Append(log, Line("DEBUG", "archive"))
            /\ extracted' = extracted \cup {Head(todo)}
            /\ unpacked' = unpacked \cup ExtractMembers(Head(todo))
            /\ calls' = Append(calls, Call("extract", Head(todo), ""))
            /\ todo' = Tail(todo)
            /\ UNCHANGED <<inputVars, geoVars, pc, diagWrites, diagDoc, all_lines, exitStatus,
                           exc, res, attempts, max_attempts, download_res, senVars, destZips>>

\* line 133: extract_all has returned
RcmExtractDone ==
    /\ pipeline = "RCM"
    /\ pc = "extract"
    /\ todo = <<>>
    /\ log' = Append(log, Line("DEBUG", "Extracting finished."))
    /\ pc' = "finish"
    /\ UNCHANGED <<inputVars, geoVars, diagWrites, diagDoc, all_lines, calls, exitStatus, exc, rcmVars,
                   senVars, destZips>>

\* lines 136-137: the closing log line and the diagnostic document
RcmFinish ==
    /\ pipeline = "RCM"
    /\ pc = "finish"
    /\ LET lines == <<Line("INFO", "Download finished")>>
       IN  /\ log' = log \o lines
           /\ WriteDiag(lines)
    /\ pc' = "halt"
    /\ exitStatus' = "returned"
    /\ UNCHANGED <<inputVars, geoVars, calls, exc, rcmVars, senVars, destZips>>

----------------------------------------------------------------------------
(* Sentinel pipeline: main, FewsConfig.__post_init__, SentinelClient *)

\* props.get(k, ""): the field FewsConfig stores for key k
Get(k) == IF k \in DOMAIN props THEN props[k] ELSE ""

\* json.load(f).get("features", [])
Features(file) == IF file.kind = "FeatureCollection" THEN file.geoms ELSE <<>>

\* get_sentinel.py lines 23-112 (main builds the configuration twice, lines 141
\* and 143): logging restarts log.txt, then the area of interest is read
SenConfig ==
    /\ pipeline = "Sentinel"
    /\ pc = "start"
    /\ LET begun == <<Line("INFO", "start logging")>>
           many == IF Len(workFiles) > 1
                   THEN <<Line("WARNING", "Multiple geojson files detected. Selecting the first file from the list.")>>
                   ELSE <<>>
           nofile == Line("ERROR", "No polygon available, please place a geojson object in the WORK directory")
           nofeat == Line("ERROR", "Geojson does not contain a feature")
       IN  IF workFiles = <<>>
           THEN /\ Uncaught(Exc("Exception", nofile.msg, ""), <<>>)
                /\ log' = Append(begun, nofile)
                /\ UNCHANGED <<cfgBuilt, geo_obj>>
           ELSE IF Features(workFiles[1]) = <<>>
           THEN /\ Uncaught(Exc("Exception", nofeat.msg, ""), <<>>)
                /\ log' = begun \o many \o <<nofeat>>
                /\ geo_obj' = workFiles[1]
                /\ UNCHANGED cfgBuilt
           ELSE /\ geo_obj' = workFiles[1]
                /\ log' = begun \o many \o
                            (IF Len(Features(workFiles[1])) > 1
                             THEN <<Line("WARNING", "Multiple geojson objects detected. Selecting the first object from the list.")>>
                             ELSE <<>>)
                /\ cfgBuilt' = cfgBuilt + 1
                /\ pc' = IF cfgBuilt + 1 = 2 THEN "search" ELSE "start"
                /\ UNCHANGED <<exitStatus, exc>>
    /\ UNCHANGED <<inputVars, wkts, decimals, diagWrites, diagDoc, all_lines, calls, rcmVars,
                   idx, token, hops, resp, destZips>>

\* a handler that raises without the error it caught
SearchFailureBare(cause) == Exc("Exception", "Product search failed", "")

\* SentinelClient.py lines 146-148
SearchFailure(cause) == Exc("Exception", "Product search failed", cause)

\* SentinelClient.py lines 155-157
SearchParseFailure(cause) == Exc("Exception", "Error parsing product search response", cause)

\* the values search_products accepts (lines 114-117 and 124-140)
senCheck ==
    [download_type |-> {"ingestion", "acquisition"},
     mission |-> {"SENTINEL-1", "SENTINEL-2"}]

\* lines 119 and 141: the logged text (the ValueError of line 120 spells
\* "acquisition" correctly; the logged line does not)
ChooseText(k) ==
    IF k = "download_type"
    THEN "Choose one of acquistion or ingestion for the download_type"
    ELSE "Choose one of SENTINEL-1 or SENTINEL-2 for the mission"

\* the download_type and mission tests of search_products: "" when the query
\* is sent, else the key that is refused
SearchRejects ==
    IF Get("download_type") \notin senCheck["download_type"] THEN "download_type"
    ELSE IF Get("mission") \notin senCheck["mission"] THEN "mission"
    ELSE ""

\* the statuses a backend answers with
Statuses == {200, 301, 302, 303, 307, 308, 404}

\* line 187: the statuses the download loop follows
Redirects == {301, 302, 303, 307}

\* requests' raise_for_status: HTTPError for a 4xx or 5xx status
RaisesForStatus(status) == status >= 400 /\ status < 600

\* SentinelClient.py lines 112-164 and 169-172: search_products, called from
\* download_products
SenSearch ==
    /\ pipeline = "Sentinel"
    /\ pc = "search"
    /\ LET query == <<Call("search", 0, "")>>
           fail(status, e) == CrashOn(status, e, <<Line("ERROR", e.msg)>>, query)
       IN  IF SearchRejects # ""
           THEN Crash(Exc("ValueError", SearchRejects, ""),
                      <<Line("ERROR", ChooseText(SearchRejects))>>, <<>>)
           ELSE \/ fail(-1, SearchFailure("ConnectionError"))
                \/ \E s \in {x \in Statuses : RaisesForStatus(x)} :
                     fail(s, SearchFailure("HTTPError"))
                \/ fail(200, SearchParseFailure("ValueError"))
                \/ \E n \in 0..MaxProducts :
                     /\ res' = [i \in 1..n |-> i]
                     /\ resp' = 200
                     /\ calls' = calls \o query
                     /\ log' = log \o <<Line("INFO", "Returned product IDS")>>
                                   \o (IF n = 0
                                       THEN <<Line("INFO", "No products found for given search criteria")>>
                                       ELSE <<>>)
                     /\ pc' = IF n = 0 THEN "loop" ELSE "token"
                     /\ UNCHANGED <<inputVars, geoVars, diagWrites, diagDoc, all_lines, exitStatus, exc,
                                    attempts, max_attempts, download_res, todo, extracted, unpacked,
                                    cfgBuilt, idx, token, hops, destZips>>

\* SentinelClient.py lines 32-38
KeycloakFailure(cause) == Exc("Exception", "Keycloak token creation failed, check your login credentials", cause)

\* SentinelClient.py lines 42-44
KeycloakParseFailure(cause) == Exc("Exception", "Error parsing Keycloak response", cause)

\* SentinelClient.py lines 18-44 and 173-174: get_keycloak
SenToken ==
    /\ pipeline = "Sentinel"
    /\ pc = "token"
    /\ LET post == <<Call("token", 0, "")>>
           fail(e) == Crash(e, <<Line("ERROR", e.msg)>>, post)
       IN  \/ fail(KeycloakFailure("ConnectionError"))
           \/ fail(KeycloakFailure("HTTPError"))
           \/ fail(KeycloakParseFailure("ValueError"))
           \/ fail(KeycloakParseFailure("KeyError"))
           \/ /\ token' = "access_token"
              /\ calls' = calls \o post
              /\ log' = Append(log, Line("DEBUG", "Token generated"))
              /\ pc' = "loop"
              /\ UNCHANGED <<inputVars, geoVars, diagWrites, diagDoc, all_lines, exitStatus, exc, rcmVars,
                             cfgBuilt, idx, hops, resp, destZips>>

\* SentinelClient.py lines 203-205: the handler around download_products
DownloadFailure(cause) == Exc("Exception", "Product download failed", cause)

\* SentinelClient.py lines 175-185: the first request for the next product
SenFetch ==
    /\ pipeline = "Sentinel"
    /\ pc = "loop"
    /\ idx <= Len(res)
    /\ LET get == <<Call("fetch", res[idx], token)>>
           lines == <<Line("INFO", "Download file from")>>
           e == DownloadFailure("ConnectionError")
       IN  \/ Crash(e, lines \o <<Line("ERROR", e.msg)>>, get)
           \/ \E s \in Statuses :
                /\ resp' = s
                /\ hops' = 0
                /\ calls' = calls \o get
                /\ log' = log \o lines
                /\ pc' = "response"
                /\ UNCHANGED <<inputVars, geoVars, diagWrites, diagDoc, all_lines, exitStatus, exc, rcmVars,
                               cfgBuilt, idx, token, destZips>>

\* SentinelClient.py lines 187-189: one round of the redirect loop. The loop
\* has no counter of its own and the requests are made with
\* allow_redirects=False, so nothing limits the rounds: the backend may
\* answer a redirect every time. hops and calls keep the first MaxHops rounds.
SenRedirect ==
    /\ pipeline = "Sentinel"
    /\ pc = "response"
    /\ resp \in Redirects
    /\ LET get == <<Call("fetch", res[idx], token)>>
           e == DownloadFailure("ConnectionError")
       IN  \/ Crash(KeyError("Location"), <<>>, <<>>)
           \/ Crash(e, <<Line("ERROR", e.msg)>>, get)
           \/ \E s \in Statuses :
                /\ resp' = s
                /\ hops' = IF hops < MaxHops THEN hops + 1 ELSE hops
                /\ calls' = IF hops < MaxHops THEN calls \o get ELSE calls
                /\ UNCHANGED <<inputVars, geoVars, pc, log, diagWrites, diagDoc, all_lines, exitStatus, exc,
                               rcmVars, cfgBuilt, idx, token, destZips>>

\* a loop that asks for a new token for every product
NextProductRenew == "token"

\* line 175: the loop goes on to the next product; the token obtained at
\* line 173, before the loop, is kept
NextProduct == "loop"

\* SentinelClient.py lines 191-202: the status test and the artifact
SenWrite ==
    /\ pipeline = "Sentinel"
    /\ pc = "response"
    /\ resp \notin Redirects
    /\ LET e == DownloadFailure("HTTPError")
       IN  IF RaisesForStatus(resp)
           THEN Crash(e, <<Line("ERROR", e.msg)>>, <<>>)
           ELSE IF Get("destinationDir") = ""
           THEN Crash(Exc("FileNotFoundError", "makedirs", ""), <<>>, <<>>)
           ELSE /\ destZips' = destZips \cup {res[idx]}
                /\ log' = Append(log, Line("INFO", "Written product file to"))
                /\ idx' = idx + 1
                /\ pc' = NextProduct
                /\ UNCHANGED <<inputVars, geoVars, diagWrites, diagDoc, all_lines, calls, exitStatus, exc,
                               rcmVars, cfgBuilt, token, hops, resp>>

\* download_products and main return
SenDone ==
    /\ pipeline = "Sentinel"
    /\ pc = "loop"
    /\ idx > Len(res)
    /\ pc' = "halt"
    /\ exitStatus' = "returned"
    /\ UNCHANGED <<inputVars, geoVars, log, diagWrites, diagDoc, all_lines, calls, exc, rcmVars, senVars,
                   destZips>>

----------------------------------------------------------------------------

Next ==
    \/ RcmSetup
    \/ RcmSearch
    \/ RcmOrder
    \/ RcmPoll
    \/ RcmPollRaise
    \/ RcmAfterDownload
    \/ RcmUnzip
    \/ RcmExtractItem
    \/ RcmExtractDone
    \/ RcmFinish
    \/ SenConfig
    \/ SenSearch
    \/ SenToken
    \/ SenFetch
    \/ SenRedirect
    \/ SenWrite
    \/ SenDone

Spec == Init /\ [][Next]_vars

\* Spec with the progress the interpreter guarantees inside the fetch of a
\* product: a request is answered or fails, and the statement after it is
\* executed (the round of the redirect loop, the status test and the write)
SpecFair == Init /\ [][Next]_vars /\ WF_vars(SenRedirect \/ SenWrite)

----------------------------------------------------------------------------
(* geojson_to_wkt on its own: every call a caller can make with one object *)

\* the largest number of children of a coordinate list
MaxVertices == 2

\* positions on and just beyond each bound, with and without an elevation
Positions ==
    LET flat == { <<lon, 0>> : lon \in {-181, -180, 180, 181} }
                   \cup { <<0, lat>> : lat \in {-91, -90, 90, 91} }
    IN  { Pt(v) : v \in flat } \cup { Pt(v \o <<200>>) : v \in flat }

ListsOf(S) ==
    UNION { { Ring(vs) : vs \in [1..n -> S] } : n \in 1..MaxVertices }

\* a point, a list of points, a list of lists of points
Coordinates ==
    Positions \cup ListsOf(Positions)
        \cup { Ring(<<r>>) : r \in ListsOf(Positions) }
        \cup { Ring(<<GeomOk, r>>) : r \in ListsOf(Positions) }

GeoObjects ==
    { File(k, <<g>>) : k \in {"Geometry", "Feature", "FeatureCollection"}, g \in Coordinates }
        \cup { File("FeatureCollection", <<g, Geom3d>>) : g \in Coordinates }

InitGeo ==
    /\ pipeline = "geojson_to_wkt"
    /\ pc = "call"
    /\ workFiles \in { <<o>> : o \in GeoObjects }
    /\ geo_obj = workFiles[1]
    /\ decimals \in {0, Decimals}
    /\ wkts = <<>>
    /\ props = <<>>
    /\ corrupt = {}
    /\ log = <<>>
    /\ diagWrites = 0
    /\ diagDoc = NoDoc
    /\ all_lines = <<>>
    /\ calls = <<>>
    /\ exitStatus = "running"
    /\ exc = NoExc
    /\ res = <<>>
    /\ attempts = 0
    /\ max_attempts = 0
    /\ download_res = {}
    /\ destZips = {}
    /\ todo = <<>>
    /\ extracted = {}
    /\ unpacked = {}
    /\ cfgBuilt = 0
    /\ idx = 1
    /\ token = ""
    /\ hops = 0
    /\ resp = 0

\* one call of geojson_to_wkt on the caller's object, with the default
\* feature number; the caller may call a second time, whatever came of the first
Convert ==
    /\ pipeline = "geojson_to_wkt"
    /\ pc \in {"call", "called"}
    /\ LET conv == geojson_to_wkt(geo_obj, 0, decimals)
       IN  /\ geo_obj' = conv.obj
           /\ wkts' = IF conv.raised = "" THEN Append(wkts, conv.wkt) ELSE wkts
           /\ exc' = IF conv.raised = "" THEN NoExc ELSE Exc(conv.raised, "", "")
    /\ pc' = IF pc = "call" THEN "called" ELSE "twice"
    /\ UNCHANGED <<inputVars, decimals, log, diagWrites, diagDoc, all_lines, calls, exitStatus,
                   rcmVars, senVars, destZips>>

NextGeo == Convert

SpecGeo == InitGeo /\ [][NextGeo]_vars

----------------------------------------------------------------------------
(* Properties *)

Halted == pc = "halt"

\* positions of the operations `op` in the run so far
OpsAt(op) == {i \in DOMAIN calls : calls[i].op = op}

Logged(level, msg) == \E i \in DOMAIN log : log[i].level = level /\ log[i].msg = msg

\* the search answered, and matched no product
ZeroResults ==
    /\ OpsAt("search") # {}
    /\ pc # "search"
    /\ res = <<>>
    /\ \/ Logged("INFO", "No images found, exiting download script...")
       \/ Logged("INFO", "No products found for given search criteria")

\* C1: a run whose search returns zero products still writes the diagnostic
\* document before it ends, and attempts no order, download or token
\* exchange; in the RCM and in the Sentinel pipeline alike.
C1_ZeroResultsStillReported ==
    (Halted /\ ZeroResults) =>
        /\ diagWrites >= 1
        /\ \A i \in DOMAIN calls : calls[i].op \notin {"order", "poll", "download", "token", "fetch"}

\* products of this run whose artifact is in the destination directory
Written == {res[i] : i \in DOMAIN res} \cap destZips

DownloadFailureLines ==
    {i \in DOMAIN log : log[i].level = "ERROR" /\ log[i].msg = "Product download failed"}

\* C2: when the download of exactly one product among N fails, the other
\* N-1 products (also those after it in the list) are written, the log holds
\* exactly one download-failure entry, and the process does not fail.
C2_OneFailureLeavesTheRest ==
    (pipeline = "Sentinel" /\ Halted /\ Cardinality(DownloadFailureLines) = 1) =>
        /\ Cardinality(Written) = Len(res) - 1
        /\ exitStatus # "uncaught"

\* the ways a run ends that C3 lists: completion, zero results, an exhausted
\* polling budget, and the fatal halts above the product level
ListedEnding ==
    \/ exitStatus \in {"returned", "exit0"}
    \/ exc.type = "ValueError"
    \/ exc.msg \in {"Product search failed",
                    "Keycloak token creation failed, check your login credentials",
                    "Error parsing Keycloak response"}
    \/ exc = Exc("ConnectionError", "search", "")

\* C3: on every terminating path (completion, zero results, exhausted polling
\* budget, validation error, geometry bounds error, search failure,
\* authentication failure) the diagnostic document is written before exit.
C3_DiagnosticOnEveryEnding ==
    (Halted /\ ListedEnding) => diagWrites >= 1

\* the stage an operation of the RCM pipeline belongs to
Rank(op) ==
    CASE op = "search" -> 1
      [] op = "order" -> 2
      [] op \in {"poll", "download"} -> 3
      [] op = "extract" -> 4
      [] OTHER -> 0

Preceded(i, op) == \E j \in 1..(i - 1) : calls[j].op = op

\* search, then order, then polling with its downloads, then extraction
StagesInOrder ==
    /\ \A i, j \in DOMAIN calls : i < j => Rank(calls[i].op) <= Rank(calls[j].op)
    /\ \A i \in DOMAIN calls :
         /\ calls[i].op = "order" => Preceded(i, "search")
         /\ calls[i].op = "poll" => Preceded(i, "order")
         /\ calls[i].op = "download" => Preceded(i, "poll")
         /\ calls[i].op = "extract" => Preceded(i, "order")

DownloadedBefore(i) ==
    \E j \in 1..(i - 1) : calls[j].op = "download" /\ calls[j].arg = calls[i].arg

\* C4 as stated: the operations of a run are in the order search, order,
\* poll, download, and every archive extracted in the run was downloaded
\* earlier in that same run.
C4_ExtractedWereDownloaded ==
    pipeline = "RCM" =>
        /\ StagesInOrder
        /\ \A i \in OpsAt("extract") : DownloadedBefore(i)

\* C4 amended: the operations of a run are in the order search, order, poll,
\* download, extraction comes after the last download, and every archive
\* extracted was either downloaded earlier in the same run or was in the
\* destination directory before the run began.
C4_ExtractedWereInDirectory ==
    pipeline = "RCM" =>
        /\ StagesInOrder
        /\ \A i \in OpsAt("extract") :
             \/ DownloadedBefore(i)
             \/ calls[i].arg \in destZips \ download_res

\* a run that extracted an archive it downloaded and one it found
C4_Witness ==
    /\ pipeline = "RCM"
    /\ exitStatus = "returned"
    /\ \E i, j \in OpsAt("extract") : DownloadedBefore(i) /\ ~DownloadedBefore(j)

\* the polling budget ran out before every ordered product was ready
BudgetExhausted ==
    /\ pipeline = "RCM"
    /\ pc \in {"unzip", "extract", "finish", "halt"}
    /\ OpsAt("poll") # {}
    /\ attempts >= max_attempts
    /\ download_res # {res[i] : i \in DOMAIN res}

\* C5: whenever the polling budget is exhausted without full readiness, also
\* when only a strict subset of the order became ready, a warning is logged
\* and the run goes on with what became ready.
C5_ExhaustedBudgetIsWarned ==
    BudgetExhausted =>
        \E i \in DOMAIN log : log[i].level = "WARNING"

RequiredKeys == IF pipeline = "RCM" THEN RcmKeys ELSE SenKeys

MissingKeys == RequiredKeys \ DOMAIN props

NoNetworkCall == \A i \in DOMAIN calls : calls[i].op \notin NetworkOps

\* C6: a configuration that lacks a required key halts the run before any
\* network call, and the logged error names exactly the missing key.
C6_MissingKeyHaltsOffline ==
    MissingKeys # {} =>
        /\ NoNetworkCall
        /\ Halted =>
             /\ exitStatus # "returned"
             /\ \E k \in MissingKeys : Logged("ERROR", NotConfigured(k))

Enumerations == IF pipeline = "RCM" THEN check ELSE senCheck

InvalidKeys ==
    {k \in (DOMAIN props) \cap (DOMAIN Enumerations) : props[k] \notin Enumerations[k]}

\* C7: a configuration with an enumerated key outside its enumeration halts
\* on the first violation with no search issued, and the logged error names
\* the key and its allowed values.
C7_InvalidValueHaltsBeforeSearch ==
    InvalidKeys # {} =>
        /\ OpsAt("search") = {}
        /\ Halted =>
             /\ exitStatus # "returned"
             /\ \E k \in InvalidKeys :
                  Logged("ERROR", WrongInput(k)) \/ Logged("ERROR", ChooseText(k))

\* the token exchange was attempted and gave no token
TokenExchangeFailed == OpsAt("token") # {} /\ token = ""

\* C8: in a Sentinel run the token is obtained at most once, whatever the
\* number of products; the exchange has succeeded before the first fetch
\* request and every fetch request carries that token; when the exchange
\* fails no fetch request is issued, and the error that ends the run is
\* neither the search error nor the download error.
C8_TokenOncePerRun ==
    /\ Cardinality(OpsAt("token")) <= 1
    /\ \A i \in OpsAt("fetch") :
         /\ Preceded(i, "token")
         /\ calls[i].auth # ""
         /\ calls[i].auth = token
    /\ TokenExchangeFailed =>
         /\ OpsAt("fetch") = {}
         /\ Halted
         /\ exitStatus = "uncaught"
         /\ exc.msg \notin {"Product search failed", "Error parsing product search response",
                            "Product download failed", ""}
         /\ Logged("ERROR", exc.msg)

\* a run that fetched several products, redirects included, with its one token
C8_Witness ==
    /\ pipeline = "Sentinel"
    /\ exitStatus = "returned"
    /\ Len(res) >= 2
    /\ Cardinality(OpsAt("fetch")) > Len(res)
    /\ Cardinality(OpsAt("token")) = 1

\* search_products was called and is over
Searched == pipeline = "Sentinel" /\ cfgBuilt = 2 /\ pc # "search"

\* the catalogue request of the run failed: no answer, or an error status
SearchRequestFailed ==
    /\ Searched
    /\ OpsAt("search") # {}
    /\ OpsAt("token") = {}
    /\ resp = -1 \/ RaisesForStatus(resp)

SearchOutcomes ==
    /\ SearchRequestFailed =>
         /\ Halted
         /\ exitStatus = "uncaught"
         /\ exc.msg = "Product search failed"
         /\ exc.cause = (IF resp = -1 THEN "ConnectionError" ELSE "HTTPError")
         /\ Logged("ERROR", "Product search failed")
         /\ res = <<>>
         /\ Written = {}
         /\ OpsAt("fetch") = {}
    /\ (Searched /\ ZeroResults) =>
         /\ exc = NoExc
         /\ exitStatus \in {"running", "returned"}
         /\ ~ \E i \in DOMAIN log : log[i].level = "ERROR"

\* C9 as stated: search issues exactly one catalogue query per call; a
\* transport or HTTP failure raises the search failure carrying the original
\* error and no product is returned or downloaded; zero results give an
\* empty sequence and no error.
C9_ExactlyOneQuery ==
    /\ Searched => Cardinality(OpsAt("search")) = 1
    /\ SearchOutcomes

\* C9 amended: search issues at most one catalogue query per call: exactly
\* one when download_type and mission are values it accepts, none
\* otherwise; the rest as stated.
C9_AtMostOneQuery ==
    /\ Cardinality(OpsAt("search")) <= 1
    /\ Searched => Cardinality(OpsAt("search")) = (IF SearchRejects = "" THEN 1 ELSE 0)
    /\ SearchOutcomes

\* a run whose catalogue request was answered with an error status
C9_Witness ==
    /\ SearchRequestFailed
    /\ RaisesForStatus(resp)
    /\ Cardinality(OpsAt("search")) = 1

Success(status) == status >= 200 /\ status < 300

\* the last answer for a product is in, and it is not one the loop follows
FinalAnswer ==
    /\ pipeline = "Sentinel"
    /\ OpsAt("fetch") # {}
    /\ pc \in {"loop", "halt"}
    /\ resp \notin Redirects

\* C10: fetch follows the redirects 301, 302, 303, 307 until another answer
\* arrives; if that answer is not a success the download failure is raised
\* and no artifact is written for the product; an artifact is written only
\* after a success answer.
C10_ArtifactOnlyAfterSuccess ==
    (FinalAnswer /\ ~Success(resp)) =>
        /\ exc.msg = "Product download failed"
        /\ \A i \in DOMAIN res : i >= idx => res[i] \notin destZips

----------------------------------------------------------------------------
(* log2xml on its own: every log file of a few lines *)

\* the largest number of lines of the log file
MaxLines == 2

\* a first field that is no time stamp, with two words and with one
OddStamp == <<"yesterday", " ", "n", "o", "o", "n">>

OneWord == <<"yesterday">>

\* the lines of a log file, by their fields: what the logger writes, and
\* lines of other shapes (a traceback line, a cut line, a foreign level)
LineFields ==
    { <<Stamp, <<"root">>, <<l>>, <<"disk full">>>> : l \in DOMAIN trans }
      \cup { <<Stamp, <<"root">>, <<"ERROR">>, <<Quote, "disk", Quote, " ", EnDash, "full">>>>,
             <<Stamp, <<"root">>, <<"INFO">>, <<"retry">>, <<"disk full">>>>,
             <<OddStamp, <<"root">>, <<"INFO">>, <<"disk full">>>>,
             <<OneWord, <<"root">>, <<"INFO">>, <<"disk full">>>>,
             <<Stamp, <<"root">>, <<"TRACE">>, <<"disk full">>>>,
             <<Stamp, <<"root">>, <<"info">>, <<"disk full">>>>,
             <<Stamp, <<"root">>, <<"INFO">>>>,
             << <<"Traceback", " ", "(most", " ", "recent", " ", "call", " ", "last):">> >>,
             << <<>> >> }

\* the text of a line with these fields
Compose(fields) == Joined(fields, Sep) \o <<"\n">>

LogLines == { Compose(f) : f \in LineFields }

InitLog ==
    /\ pipeline = "log2xml"
    /\ pc = "call"
    /\ all_lines \in UNION { [1..n -> LogLines] : n \in 0..MaxLines }
    /\ diagDoc = NoDoc
    /\ diagWrites = 0
    /\ workFiles = <<>>
    /\ geo_obj = NoObj
    /\ decimals = Decimals
    /\ wkts = <<>>
    /\ props = <<>>
    /\ corrupt = {}
    /\ log = <<>>
    /\ calls = <<>>
    /\ exitStatus = "running"
    /\ exc = NoExc
    /\ res = <<>>
    /\ attempts = 0
    /\ max_attempts = 0
    /\ download_res = {}
    /\ destZips = {}
    /\ todo = <<>>
    /\ extracted = {}
    /\ unpacked = {}
    /\ cfgBuilt = 0
    /\ idx = 1
    /\ token = ""
    /\ hops = 0
    /\ resp = 0

\* one call of log2xml on the log file
Render ==
    /\ pipeline = "log2xml"
    /\ pc = "call"
    /\ diagDoc' = log2xml(all_lines)
    /\ diagWrites' = diagWrites + 1
    /\ pc' = "called"
    /\ UNCHANGED <<inputVars, geoVars, all_lines, log, calls, exitStatus, exc, rcmVars, senVars,
                   destZips>>

NextLog == Render

SpecLog == InitLog /\ [][NextLog]_vars

----------------------------------------------------------------------------
(* Properties of geojson_to_wkt (specification SpecGeo) *)

\* the positions of a coordinate structure, in order
RECURSIVE Vertices(_)
Vertices(g) ==
    IF g.leaf THEN <<g.p>>
    ELSE IF g.v = <<>> THEN <<>>
    ELSE Vertices(g.v[1]) \o Vertices(Ring(Tail(g.v)))

Abs(n) == IF n < 0 THEN -n ELSE n

\* some vertex lies beyond a bound
Beyond(g) ==
    \E i \in DOMAIN Vertices(g) :
        Abs(Vertices(g)[i][1]) > 180 \/ Abs(Vertices(g)[i][2]) > 90

\* the geometry of the object the caller passed, as it was before the call
GivenGeometry == workFiles[1].geoms[1]

\* the nesting of a coordinate structure, its positions left out
RECURSIVE Nesting(_)
Nesting(g) ==
    IF g.leaf THEN Pt(<<>>) ELSE Ring([i \in DOMAIN g.v |-> Nesting(g.v[i])])

\* the (longitude, latitude) prefixes of the positions that were passed
Prefixes ==
    [i \in DOMAIN Vertices(GivenGeometry) |->
        <<Vertices(GivenGeometry)[i][1], Vertices(GivenGeometry)[i][2]>>]

\* the numbers of a WKT text, in order
NumbersOf(wkt) ==
    LET isNum(t) == t.sym = "#"
        nums == SelectSeq(wkt, isNum)
    IN  [i \in DOMAIN nums |-> nums[i].num]

RECURSIVE Flat(_)
Flat(pairs) == IF pairs = <<>> THEN <<>> ELSE Head(pairs) \o Flat(Tail(pairs))

\* some position that was passed has a third component
Elevated == \E i \in DOMAIN Vertices(GivenGeometry) : Len(Vertices(GivenGeometry)[i]) > 2

\* C11: a geometry with a vertex beyond a bound makes the call raise the
\* bounds error, return no string and leave the caller's object exactly as
\* it was; a geometry whose vertices are all within or on the bounds is
\* converted.
C11_BoundsErrorLeavesInputIntact ==
    (pipeline = "geojson_to_wkt" /\ pc # "call") =>
        IF Beyond(GivenGeometry)
        THEN /\ exc.type = "ValueError"
             /\ wkts = <<>>
             /\ geo_obj = workFiles[1]
        ELSE /\ exc = NoExc
             /\ wkts # <<>>

----------------------------------------------------------------------------
(* Properties of the extraction stage *)

\* the unzip option of the configuration is on
UnzipOn == "unzip" \in DOMAIN props /\ props["unzip"] = "True"

\* extract_all has been called in this run
ExtractingEntered == Logged("DEBUG", "Extracting products : ...")

\* C12: the extraction stage is entered only with the unzip option on (with
\* it off no archive is extracted anywhere in the run), and with it on every
\* run that gets past the download stage without halting enters it, the
\* run whose polling budget ran out with nothing downloaded included.
C12_ExtractingIffUnzip ==
    pipeline = "RCM" =>
        /\ ~UnzipOn => /\ ~ExtractingEntered
                       /\ pc # "extract"
                       /\ OpsAt("extract") = {}
                       /\ extracted = {}
                       /\ unpacked = {}
        /\ (UnzipOn /\ pc \in {"extract", "finish"}) => ExtractingEntered
        /\ (UnzipOn /\ exitStatus = "returned") => ExtractingEntered
        /\ ExtractingEntered => OpsAt("poll") # {}

\* a run with unzip on whose polling budget ran out with nothing downloaded,
\* and which entered extraction and returned
C12_Witness ==
    /\ pipeline = "RCM"
    /\ UnzipOn
    /\ exitStatus = "returned"
    /\ BudgetExhausted
    /\ download_res = {}
    /\ ExtractingEntered

\* the archive members of the destination directory that cannot be extracted
Failing == {x \in corrupt : x[1] \in destZips}

\* a member that can be extracted: its archive opens and the member is sound
Extractable(a, m) == <<a, 0>> \notin corrupt /\ <<a, m>> \notin corrupt

\* a warning or an error was logged after extract_all was called
FailureLogged ==
    \E i, j \in DOMAIN log :
        /\ i < j
        /\ log[i] = Line("DEBUG", "Extracting products : ...")
        /\ log[j].level \in {"WARNING", "ERROR"}

\* C13: a run that entered extraction and has ended was not ended by an
\* archive: every extractable member of every archive of the destination
\* directory has been extracted, and when a member or an archive failed
\* the failure is in the log.
C13_ExtractionFailuresIsolated ==
    (pipeline = "RCM" /\ Halted /\ ExtractingEntered) =>
        /\ exc.type # "BadZipFile"
        /\ \A a \in destZips : \A m \in Members :
              Extractable(a, m) => <<a, m>> \in unpacked
        /\ Failing # {} => FailureLogged

----------------------------------------------------------------------------
(* Properties of log2xml (specification SpecLog) *)

\* the fields a line of the log file was written with
FieldsOf(aline) == CHOOSE f \in LineFields : Compose(f) = aline

\* the fixed table of severity codes
Code == [ERROR |-> "1", WARNING |-> "2", INFO |-> "3", DEBUG |-> "4"]

\* a line of the (timestamp, component, severity, message) shape
WellFormed(f) ==
    /\ Len(f) >= 4
    /\ f[1] = Stamp
    /\ \E l \in DOMAIN Code : f[3] = <<l>>

\* a text without its quotes and dashes
Plain(text) == LET kept(c) == c \notin {Quote, EnDash} IN SelectSeq(text, kept)

\* the element of a well-formed line: the date and the time to the second
\* of its stamp, the code of its severity, its message
Expected(f) ==
    [date |-> <<"2024-05-01">>,
     time |-> <<"1", "0", ":", "0", "0", ":", "0", "0">>,
     level |-> Code[f[3][1]],
     description |-> Plain(f[4])]

\* the well-formed lines of the log file, in the order of the file
WellFormedLines ==
    LET fields == [i \in DOMAIN all_lines |-> FieldsOf(all_lines[i])]
    IN  SelectSeq(fields, WellFormed)

\* the elements of the document that carry a date of the logger
Dated == LET dated(e) == e.date = <<"2024-05-01">> IN SelectSeq(diagDoc.lines, dated)

\* C14: the elements of the rendered document that stem from well-formed
\* lines are, in the order of the log file, one element for each
\* well-formed line, with its date, its time, the code of its severity
\* (ERROR 1, WARNING 2, INFO 3, DEBUG 4) and its message up to the first
\* " - " in it: none is reordered, duplicated or dropped.
C14_OneElementPerWellFormedLine ==
    (pipeline = "log2xml" /\ pc = "called") =>
        Dated = [i \in DOMAIN WellFormedLines |-> Expected(WellFormedLines[i])]

\* a log of two well-formed lines of different severity, rendered
C14_Witness ==
    /\ pipeline = "log2xml"
    /\ pc = "called"
    /\ Len(WellFormedLines) = 2
    /\ WellFormedLines[1][3] # WellFormedLines[2][3]
    /\ Len(diagDoc.lines) = 2

\* the document has its opening and its closing element
Completed == diagDoc.header = DiagHeader /\ diagDoc.footer = DiagFooter

\* C15: rendering any log file ends without an error and with a completed
\* document whose elements are those of the well-formed lines and nothing
\* else: a line with too few fields, an unknown severity or a first field
\* that is no time stamp leaves no element, and the well-formed lines
\* around it are all there.
C15_MalformedLinesSkipped ==
    (pipeline = "log2xml" /\ pc = "called") =>
        /\ exc = NoExc
        /\ Completed
        /\ diagDoc.lines = [i \in DOMAIN WellFormedLines |-> Expected(WellFormedLines[i])]

----------------------------------------------------------------------------
(* Properties of the run as a whole *)

\* C16: the diagnostic document is written at most once in a run, whatever
\* the outcome, the run whose polling budget ran out included.
C16_DiagnosticWrittenOnce == diagWrites <= 1

\* the search stage failed fatally
SearchStageFailed ==
    \/ /\ pipeline = "RCM"
       /\ exc \in {Exc("ConnectionError", "search", ""), KeyError("mission")}
    \/ /\ pipeline = "Sentinel"
       /\ \/ exc.msg \in {"Product search failed", "Error parsing product search response"}
          \/ exc.type = "ValueError"

\* the order or the download stage of the RCM run failed fatally
DownloadStageFailed ==
    /\ pipeline = "RCM"
    /\ exc \in {Exc("ConnectionError", "order", ""), Exc("ConnectionError", "download", ""),
                KeyError("timeout"), KeyError("destinationDir")}

\* C17: a stage that fails fatally ends the run there: the run is halted as
\* soon as an exception has escaped; after a failed search there is no order,
\* poll, download, extraction, token or product request; after a failed
\* order or download stage there is no extraction.
C17_FailureEndsTheRun ==
    pipeline \in {"RCM", "Sentinel"} =>
        /\ exc # NoExc => Halted /\ exitStatus = "uncaught"
        /\ SearchStageFailed =>
              \A op \in {"order", "poll", "download", "extract", "token", "fetch"} :
                  OpsAt(op) = {}
        /\ DownloadStageFailed =>
              /\ OpsAt("extract") = {}
              /\ ~ExtractingEntered
              /\ unpacked = {}

\* a run that downloaded a product, then failed in the download stage
C17_Witness ==
    /\ exc = Exc("ConnectionError", "download", "")
    /\ OpsAt("download") # {}
    /\ Halted
    /\ UnzipOn

----------------------------------------------------------------------------
(* More properties of geojson_to_wkt (specification SpecGeo) *)

\* C18: the coordinates the call validates and serializes are the input
\* coordinates with every position cut to its first two components: the
\* nesting and the order of the positions are kept, the bounds error is
\* raised exactly when a (longitude, latitude) prefix is beyond a bound,
\* whatever the third component, and the numbers of the returned string are
\* those prefixes in order.
C18_ProjectedToTwoComponents ==
    (pipeline = "geojson_to_wkt" /\ pc # "call") =>
        /\ Vertices(geo_obj.geoms[1]) = Prefixes
        /\ Nesting(geo_obj.geoms[1]) = Nesting(GivenGeometry)
        /\ exc.type = "ValueError" <=>
              \E i \in DOMAIN Prefixes :
                  Abs(Prefixes[i][1]) > 180 \/ Abs(Prefixes[i][2]) > 90
        /\ \A k \in DOMAIN wkts :
              /\ NumbersOf(wkts[k]) = Flat(Prefixes)
              /\ \A j \in DOMAIN wkts[k] : wkts[k][j].sym = "#" => wkts[k][j].dec = decimals

\* a nested geometry with elevations and with positions on the bounds,
\* converted
C18_Witness ==
    /\ pipeline = "geojson_to_wkt"
    /\ pc = "called"
    /\ Elevated
    /\ Depth(GivenGeometry) = 2
    /\ Len(Prefixes) > 1
    /\ wkts # <<>>

\* C19: a call leaves the caller's object as it was, whatever the input, and
\* two calls on the same object with the same precision return the same
\* string.
C19_PureFunction ==
    (pipeline = "geojson_to_wkt" /\ pc # "call") =>
        /\ geo_obj = workFiles[1]
        /\ Len(wkts) = 2 => wkts[1] = wkts[2]

----------------------------------------------------------------------------
(* Properties of the area of interest (specification Spec) *)

\* the area of interest has been read and the run goes on to its search
AoiRead == pipeline \in {"RCM", "Sentinel"} /\ pc = "search"

\* the geometry the run goes on with is the first geometry of the first file
FirstUsed == ensure_2d(geo_obj.geoms[1]) = ensure_2d(workFiles[1].geoms[1])

Warned == \E i \in DOMAIN log : log[i].level = "WARNING"

\* C20: in both pipelines: with several files the first of the listing is
\* used and a warning is logged; with one file of one feature it is used and
\* no warning is logged; with several features the first is used and a
\* warning is logged; with no file the run halts on a logged error before
\* any network call.
C20_AreaOfInterestPolicy ==
    /\ (AoiRead /\ Len(workFiles) > 1) => FirstUsed /\ Warned
    /\ (AoiRead /\ Len(workFiles) = 1 /\ Len(workFiles[1].geoms) = 1) => FirstUsed /\ ~Warned
    /\ (AoiRead /\ Len(workFiles) = 1 /\ Len(workFiles[1].geoms) > 1) => FirstUsed /\ Warned
    /\ (pipeline \in {"RCM", "Sentinel"} /\ workFiles = <<>> /\ pc # "start") =>
          /\ Halted
          /\ \E i \in DOMAIN log : log[i].level = "ERROR"
          /\ NoNetworkCall

----------------------------------------------------------------------------
(* Termination of the fetch of one product (specification SpecFair) *)

\* the request for a product has been answered and the answer is still to
\* be acted on: followed if it is a redirect, tested and written otherwise
Fetching == pipeline = "Sentinel" /\ pc = "response"

\* C21: whatever the backend answers, the fetch of a product comes to its
\* end, the artifact written or the download failure raised: the redirect
\* loop does not go on for ever, also when every answer is a redirect.
C21_FetchTerminates == Fetching ~> ~Fetching

============================================================================
